---- MODULE Spec2Model ----
(***************************************************************************)
(* Email Domain Validator (MX checker): email_domain_validator.py          *)
(*                                                                         *)
(* A Python str is a sequence of one-character strings.  A spreadsheet     *)
(* cell is a record [t, v, n]: t = "str" with text v, t = "nan" (an empty  *)
(* cell, float NaN) or t = "int" with value n.  Optional[str] is a record  *)
(* [isNone, s].                                                            *)
(***************************************************************************)
EXTENDS Integers, Sequences, FiniteSets, TLC

VARIABLES
    table,           \* the input spreadsheet: [columns, rows]
    email_column,    \* run(email_column=...)
    output_column,   \* run(output_column=...)
    progress_every,  \* run(progress_every=...)
    dns,             \* the DNS: name -> TRUE when resolve(name, "MX") answers
    pc,              \* position of run
    df,              \* the DataFrame
    domains,         \* the Series domains (one Optional[str] per row)
    unique_domains,  \* the sorted list of line 85
    i,               \* loop counter of line 90 (domains completed)
    printed,         \* the lines printed so far
    written,         \* the output spreadsheet
    error,           \* the exception run ended with
    cache,           \* Dict[str, int]
    queries,         \* the resolver's event log: issue / finish
    inflight,        \* control is inside resolver.resolve
    arg,             \* the domain argument of the current / last mx_exists call
    retval,          \* the value the last mx_exists call returned
    ncalls,          \* number of mx_exists calls
    runNo,           \* which execution of the script this is
    prevWritten,     \* what the previous execution wrote
    prevProgress,    \* the progress_every of the previous execution
    email_arg,       \* the argument of an extract_domain call
    extracted,       \* what that call returned
    xcalled          \* the call has returned

runVars == <<table, email_column, output_column, progress_every, pc, df,
             domains, unique_domains, i, printed, written, error>>
mxVars == <<cache, queries, inflight, arg, retval, ncalls>>
execVars == <<runNo, prevWritten, prevProgress>>
extractVars == <<email_arg, extracted, xcalled>>
vars == <<runVars, mxVars, execVars, extractVars, dns>>

(***************************************************************************)
(* Bounds of the model.                                                    *)
(***************************************************************************)
MaxRows == 2      \* rows of an input table
MaxLen == 4       \* length of an extract_domain argument
MaxProgress == 2  \* largest progress_every
MaxCalls == 4     \* mx_exists calls of the stand-alone cache harness

(***************************************************************************)
(* Python str operations.                                                  *)
(***************************************************************************)
Whitespace == {" ", "\t", "\n"}

\* str.lower() on one character
LowerChar(c) ==
    CASE c = "A" -> "a"
      [] c = "B" -> "b"
      [] c = "C" -> "c"
      [] c = "N" -> "n"
      [] OTHER -> c

\* ord(c)
Ord(c) ==
    CASE c = "\t" -> 9
      [] c = "\n" -> 10
      [] c = " " -> 32
      [] c = "." -> 46
      [] c = "7" -> 55
      [] c = "@" -> 64
      [] c = "A" -> 65
      [] c = "B" -> 66
      [] c = "C" -> 67
      [] c = "N" -> 78
      [] c = "a" -> 97
      [] c = "b" -> 98
      [] c = "c" -> 99
      [] c = "n" -> 110

\* least and greatest element of a non-empty set of positions
MinOf(S) == CHOOSE x \in S : \A y \in S : x <= y
MaxOf(S) == CHOOSE x \in S : \A y \in S : y <= x

\* str.strip(): the slice between the first and the last character that is
\* not whitespace
Strip(s) ==
    LET solid == {k \in 1..Len(s) : s[k] \notin Whitespace}
    IN IF solid = {} THEN <<>> ELSE SubSeq(s, MinOf(solid), MaxOf(solid))

\* str.lower()
Lower(s) == [k \in 1..Len(s) |-> LowerChar(s[k])]

\* sub in s, for a one-character sub
Contains(s, c) == \E k \in 1..Len(s) : s[k] = c

\* s.split(c, 1)[1], for s that contains c
AfterFirst(s, c) ==
    SubSeq(s, MinOf({k \in 1..Len(s) : s[k] = c}) + 1, Len(s))

\* s.rsplit(c, 1)[1]
AfterLast(s, c) ==
    SubSeq(s, MaxOf({k \in 1..Len(s) : s[k] = c}) + 1, Len(s))

RECURSIVE StrLess(_, _)
\* s < t on str: lexicographic by code point
StrLess(s, t) ==
    IF t = <<>> THEN FALSE
    ELSE IF s = <<>> THEN TRUE
    ELSE IF Ord(Head(s)) # Ord(Head(t)) THEN Ord(Head(s)) < Ord(Head(t))
    ELSE StrLess(Tail(s), Tail(t))

(***************************************************************************)
(* Values.                                                                 *)
(***************************************************************************)
None == [isNone |-> TRUE, s |-> <<>>]
Some(s) == [isNone |-> FALSE, s |-> s]

StrCell(s) == [t |-> "str", v |-> s, n |-> 0]
NaNCell == [t |-> "nan", v |-> <<>>, n |-> 0]
IntCell(k) == [t |-> "int", v |-> <<>>, n |-> k]

Digits == <<"0", "1", "2", "3", "4", "5", "6", "7", "8", "9">>

\* str(value), as Series.astype(str) applies it
AsTypeStr(cell) ==
    CASE cell.t = "str" -> cell.v
      [] cell.t = "nan" -> <<"n", "a", "n">>
      [] cell.t = "int" -> <<Digits[cell.n + 1]>>

(***************************************************************************)
(* extract_domain                                                          *)
(***************************************************************************)
extract_domain_rsplit(email) ==
    IF email.t # "str" THEN None
    ELSE LET e == Strip(email.v) IN
         IF ~Contains(e, "@") \/ e = <<>> THEN None
         ELSE Some(Strip(Lower(AfterLast(e, "@"))))

extract_domain(email) ==
    IF email.t # "str" THEN None
    ELSE LET e == Strip(email.v) IN
         IF ~Contains(e, "@") \/ e = <<>> THEN None
         ELSE Some(Strip(Lower(AfterFirst(e, "@"))))

(***************************************************************************)
(* pandas and dict operations.                                             *)
(***************************************************************************)
Range(f) == {f[k] : k \in DOMAIN f}

\* position of a column label (labels of a loaded frame are unique)
ColIndex(columns, name) == CHOOSE k \in 1..Len(columns) : columns[k] = name

\* df[name]
Column(d, name) ==
    [r \in 1..Len(d.rows) |-> d.rows[r][ColIndex(d.columns, name)]]

\* df[name] = values: an existing label is assigned in place, a new one is
\* appended as the last column
SetColumn(d, name, values) ==
    IF name \in Range(d.columns)
    THEN [columns |-> d.columns,
          rows |-> [r \in 1..Len(d.rows) |->
                      [c \in 1..Len(d.columns) |->
                          IF c = ColIndex(d.columns, name) THEN values[r]
                          ELSE d.rows[r][c]]]]
    ELSE [columns |-> Append(d.columns, name),
          rows |-> [r \in 1..Len(d.rows) |-> Append(d.rows[r], values[r])]]

RECURSIVE SortedDesc(_)
SortedDesc(S) ==
    IF S = {} THEN <<>>
    ELSE LET m == CHOOSE x \in S : \A y \in S : ~StrLess(x, y)
         IN <<m>> \o SortedDesc(S \ {m})

RECURSIVE Sorted(_)
\* sorted(S) for a set of str
Sorted(S) ==
    IF S = {} THEN <<>>
    ELSE LET m == CHOOSE x \in S : \A y \in S : ~StrLess(y, x)
         IN <<m>> \o Sorted(S \ {m})

EmptyDict == <<>>

\* cache[k] = v
Put(c, k, v) == [x \in (DOMAIN c) \cup {k} |-> IF x = k THEN v ELSE c[x]]

\* cache.get(d, default), d an Optional[str]
Get(c, d, default) ==
    IF ~d.isNone /\ d.s \in DOMAIN c THEN c[d.s] ELSE default

NoFile == [exists |-> FALSE, columns |-> <<>>, rows |-> <<>>]
File(d) == [exists |-> TRUE, columns |-> d.columns, rows |-> d.rows]
NoFrame == [columns |-> <<>>, rows |-> <<>>]
NoError == [type |-> "none", column |-> "", available |-> <<>>]

\* the exception classes resolver.resolve raises
Exceptions == {"NXDOMAIN", "NoAnswer", "Timeout", "NoNameservers", "LabelTooLong", "OSError"}

(***************************************************************************)
(* mx_exists                                                               *)
(***************************************************************************)
Issue(d) == [ev |-> "issue", name |-> d]
Finish(d) == [ev |-> "finish", name |-> d]

MxExistsEnterNoCheck(d) ==
    /\ ncalls' = ncalls + 1
    /\ arg' = d
    /\ inflight' = TRUE
    /\ queries' = Append(queries, Issue(d))
    /\ UNCHANGED <<cache, retval>>

\* lines 46-50: the cache test, and the call of resolver.resolve
MxExistsEnter(d) ==
    /\ ncalls' = ncalls + 1
    /\ arg' = d
    /\ IF d \in DOMAIN cache
       THEN /\ retval' = cache[d]
            /\ UNCHANGED <<cache, queries, inflight>>
       ELSE /\ inflight' = TRUE
            /\ queries' = Append(queries, Issue(d))
            /\ UNCHANGED <<cache, retval>>

\* lines 50-51, 55: resolver.resolve returned
MxExistsOk ==
    /\ cache' = Put(cache, arg, 1)
    /\ retval' = cache'[arg]
    /\ inflight' = FALSE
    /\ queries' = Append(queries, Finish(arg))
    /\ UNCHANGED <<arg, ncalls>>

MxExistsRaiseRetry(exc) ==
    /\ cache' = Put(cache, arg, 0)
    /\ retval' = cache'[arg]
    /\ inflight' = FALSE
    /\ queries' = queries \o <<Finish(arg), Issue(arg), Finish(arg)>>
    /\ UNCHANGED <<arg, ncalls>>

MxExistsRaiseNoStore(exc) ==
    /\ cache' = cache
    /\ retval' = 0
    /\ inflight' = FALSE
    /\ queries' = Append(queries, Finish(arg))
    /\ UNCHANGED <<arg, ncalls>>

MxExistsRaiseTransient(exc) ==
    /\ cache' = Put(cache, arg, IF exc \in {"NXDOMAIN", "NoAnswer"} THEN 0 ELSE 1)
    /\ retval' = cache'[arg]
    /\ inflight' = FALSE
    /\ queries' = Append(queries, Finish(arg))
    /\ UNCHANGED <<arg, ncalls>>

\* lines 52-55: resolver.resolve raised exc, an Exception of any class
MxExistsRaise(exc) ==
    /\ cache' = Put(cache, arg, 0)
    /\ retval' = cache'[arg]
    /\ inflight' = FALSE
    /\ queries' = Append(queries, Finish(arg))
    /\ UNCHANGED <<arg, ncalls>>

(***************************************************************************)
(* The inputs of run.                                                      *)
(***************************************************************************)
Email1 == <<"a", "@", "b", ".", "c">>
Email2 == <<" ", "A", "@", "B", ".", "C", " ">>
Email3 == <<"a", "@", "a", ".", "b">>
Email4 == <<"a", "@", "n", "a", "n">>
Email5 == <<"a", "@">>
Email6 == <<"a", ".", "b">>

EmailCells ==
    {StrCell(Email1), StrCell(Email2), StrCell(Email3), StrCell(Email4),
     StrCell(Email5), StrCell(Email6), NaNCell}

\* the names a run over these cells can ask the DNS about
DnsNames == {<<"a", ".", "b">>, <<"b", ".", "c">>, <<"n", "a", "n">>}

Layouts == {<<"id", "email", "domain_active">>, <<"id", "mail">>}
EmailColumnNames == {"email", "mail"}
OutputColumnNames == {"domain_active", "mx"}

OpaqueCell == IntCell(7)

RowOf(layout, cell) ==
    [c \in 1..Len(layout) |->
        IF layout[c] \in EmailColumnNames THEN cell ELSE OpaqueCell]

Tables ==
    UNION {{[columns |-> layout,
             rows |-> [r \in 1..n |-> RowOf(layout, cells[r])]] :
                cells \in [1..n -> EmailCells]} :
           layout \in Layouts, n \in 0..MaxRows}

Line(text, a, b) == [line |-> text, a |-> a, b |-> b]

(***************************************************************************)
(* run                                                                     *)
(***************************************************************************)
IdleRun ==
    /\ table = NoFrame
    /\ email_column = "email"
    /\ output_column = "domain_active"
    /\ progress_every = 1
    /\ df = NoFrame
    /\ domains = <<>>
    /\ unique_domains = <<>>
    /\ i = 0
    /\ printed = <<>>
    /\ written = NoFile
    /\ error = NoError
    /\ runNo = 1
    /\ prevWritten = NoFile
    /\ prevProgress = 0

IdleMx ==
    /\ cache = EmptyDict
    /\ queries = <<>>
    /\ inflight = FALSE
    /\ arg = <<>>
    /\ retval = 0
    /\ ncalls = 0

IdleExtract ==
    /\ email_arg = NaNCell
    /\ extracted = None
    /\ xcalled = FALSE

\* the script has not been started
Init ==
    /\ IdleRun
    /\ pc = "start"
    /\ dns = [d \in DnsNames |-> FALSE]
    /\ IdleMx
    /\ IdleExtract

\* lines 113-124: the script is started on some table, with some column
\* names and batch size, against some DNS
Start ==
    /\ pc = "start"
    /\ table' \in Tables
    /\ email_column' \in EmailColumnNames
    /\ output_column' \in OutputColumnNames
    /\ progress_every' \in 1..MaxProgress
    /\ dns' \in [DnsNames -> BOOLEAN]
    /\ pc' = "load"
    /\ UNCHANGED <<df, domains, unique_domains, i, printed, written, error>>
    /\ UNCHANGED <<mxVars, execVars, extractVars>>

LoadChecksOutputColumn ==
    /\ pc = "load"
    /\ df' = table
    /\ printed' = Append(printed, Line("Loading Excel", 0, 0))
    /\ IF output_column \notin Range(table.columns)
       THEN /\ pc' = "error"
            /\ error' = [type |-> "ValueError", column |-> output_column,
                         available |-> table.columns]
       ELSE /\ pc' = "extract"
            /\ error' = error
    /\ UNCHANGED <<table, email_column, output_column, progress_every,
                   domains, unique_domains, i, written>>
    /\ UNCHANGED <<mxVars, execVars, extractVars, dns>>

\* lines 70-80: read the table, check the email column, configure the resolver
Load ==
    /\ pc = "load"
    /\ df' = table
    /\ printed' = Append(printed, Line("Loading Excel", 0, 0))
    /\ IF email_column \notin Range(table.columns)
       THEN /\ pc' = "error"
            /\ error' = [type |-> "ValueError", column |-> email_column,
                         available |-> table.columns]
       ELSE /\ pc' = "extract"
            /\ error' = error
    /\ UNCHANGED <<table, email_column, output_column, progress_every,
                   domains, unique_domains, i, written>>
    /\ UNCHANGED <<mxVars, execVars, extractVars, dns>>

\* line 82: astype(str).str.strip() on one cell
EmailText(cell) == Strip(AsTypeStr(cell))

\* line 83: extract_domain applied to the text of a cell.  extract_domain is
\* pure: its results on the cells a table can hold are tabulated once.
DomainOfCell == [cell \in EmailCells |-> extract_domain(StrCell(EmailText(cell)))]

\* lines 82-83: emails.apply(extract_domain) on the email column of d
Apply(d, name) ==
    [r \in 1..Len(d.rows) |-> DomainOfCell[Column(d, name)[r]]]

\* lines 82-83: the emails as stripped text, and the domain of each; a label
\* that is not a column raises KeyError
Extract ==
    /\ pc = "extract"
    /\ pc' = IF email_column \in Range(df.columns) THEN "dedup" ELSE "error"
    /\ error' = IF email_column \in Range(df.columns) THEN error
                ELSE [type |-> "KeyError", column |-> email_column,
                      available |-> <<>>]
    /\ domains' = IF email_column \in Range(df.columns)
                  THEN Apply(df, email_column)
                  ELSE domains
    /\ UNCHANGED <<table, email_column, output_column, progress_every, df,
                   unique_domains, i, printed, written>>
    /\ UNCHANGED <<mxVars, execVars, extractVars, dns>>

\* {d for d in domains if d and d != "nan"}
Wanted(ds) ==
    {ds[r].s : r \in {k \in DOMAIN ds :
                        /\ ~ds[k].isNone
                        /\ ds[k].s # <<>>
                        /\ ds[k].s # <<"n", "a", "n">>}}

\* lines 85-88: the sorted unique domains, and the empty cache
Deduplicate ==
    /\ pc = "dedup"
    /\ unique_domains' = Sorted(Wanted(domains))
    /\ printed' = Append(printed,
                         Line("Rows", Len(df.rows), Len(unique_domains')))
    /\ cache' = EmptyDict
    /\ i' = 0
    /\ pc' = "resolve"
    /\ UNCHANGED <<table, email_column, output_column, progress_every, df,
                   domains, written, error>>
    /\ UNCHANGED <<queries, inflight, arg, retval, ncalls>>
    /\ UNCHANGED <<execVars, extractVars, dns>>

LoopAdvanceAbortOnFailure ==
    /\ i' = i + 1
    /\ printed' = printed
    /\ IF retval' = 0
       THEN /\ pc' = "error"
            /\ error' = [type |-> "DNSException", column |-> "",
                         available |-> <<>>]
       ELSE /\ pc' = "resolve"
            /\ error' = error
    /\ UNCHANGED <<table, email_column, output_column, progress_every, df,
                   domains, unique_domains, written>>
    /\ UNCHANGED <<execVars, extractVars, dns>>

\* lines 90, 92-93: mx_exists returned; report progress, next domain
LoopAdvance ==
    /\ i' = i + 1
    /\ printed' =
         IF (i + 1) % progress_every = 0 \/ i + 1 = Len(unique_domains)
         THEN Append(printed, Line("Checked domains", i + 1, Len(unique_domains)))
         ELSE printed
    /\ pc' = "resolve"
    /\ error' = error
    /\ UNCHANGED <<table, email_column, output_column, progress_every, df,
                   domains, unique_domains, written>>
    /\ UNCHANGED <<execVars, extractVars, dns>>

StayInCall ==
    UNCHANGED <<runVars, execVars, extractVars, dns>>

\* lines 90-91: the next domain of the loop is passed to mx_exists
LoopCall ==
    /\ pc = "resolve"
    /\ ~inflight
    /\ i < Len(unique_domains)
    /\ LET d == unique_domains[i + 1] IN
         /\ MxExistsEnter(d)
         /\ IF inflight' THEN StayInCall ELSE LoopAdvance

\* line 50 returns an answer
QuerySucceeds ==
    /\ pc = "resolve"
    /\ inflight
    /\ dns[arg]
    /\ MxExistsOk
    /\ LoopAdvance

\* line 50 raises
QueryRaises ==
    /\ pc = "resolve"
    /\ inflight
    /\ ~dns[arg]
    /\ \E exc \in Exceptions : MxExistsRaise(exc)
    /\ LoopAdvance

\* line 90: the list is exhausted
ForExit ==
    /\ pc = "resolve"
    /\ ~inflight
    /\ i = Len(unique_domains)
    /\ pc' = "map"
    /\ UNCHANGED <<table, email_column, output_column, progress_every, df,
                   domains, unique_domains, i, printed, written, error>>
    /\ UNCHANGED <<mxVars, execVars, extractVars, dns>>

\* line 95: df[output_column] = domains.map(lambda d: cache.get(d, 0))
Map ==
    /\ pc = "map"
    /\ df' = SetColumn(df, output_column,
                       [r \in 1..Len(df.rows) |-> IntCell(Get(cache, domains[r], 0))])
    /\ pc' = "persist"
    /\ UNCHANGED <<table, email_column, output_column, progress_every,
                   domains, unique_domains, i, printed, written, error>>
    /\ UNCHANGED <<mxVars, execVars, extractVars, dns>>

\* lines 97-99: df.to_excel(output_file, index=False)
Persist ==
    /\ pc = "persist"
    /\ printed' = printed \o <<Line("Writing output", 0, 0), Line("Done", 0, 0)>>
    /\ written' = File(df)
    /\ pc' = "done"
    /\ UNCHANGED <<table, email_column, output_column, progress_every, df,
                   domains, unique_domains, i, error>>
    /\ UNCHANGED <<mxVars, execVars, extractVars, dns>>

Next ==
    \/ Start
    \/ Load
    \/ Extract
    \/ Deduplicate
    \/ LoopCall
    \/ QuerySucceeds
    \/ QueryRaises
    \/ ForExit
    \/ Map
    \/ Persist

Spec == Init /\ [][Next]_vars

\* every step of run returns: a query is bounded by resolver.lifetime (line 80)
FairSpec == Spec /\ WF_vars(Next)

(***************************************************************************)
(* A second execution of the script on the same input: a new process, so   *)
(* a new cache, resolver and frame.                                        *)
(***************************************************************************)
\* lines 113-124
Restart ==
    /\ pc \in {"done", "error"}
    /\ runNo = 1
    /\ runNo' = 2
    /\ prevWritten' = written
    /\ prevProgress' = progress_every
    /\ progress_every' \in 1..MaxProgress
    /\ pc' = "load"
    /\ df' = NoFrame
    /\ domains' = <<>>
    /\ unique_domains' = <<>>
    /\ i' = 0
    /\ printed' = <<>>
    /\ written' = NoFile
    /\ error' = NoError
    /\ cache' = EmptyDict
    /\ queries' = <<>>
    /\ inflight' = FALSE
    /\ arg' = <<>>
    /\ retval' = 0
    /\ ncalls' = 0
    /\ UNCHANGED <<table, email_column, output_column, dns, extractVars>>

TwoRunNext == Next \/ Restart

TwoRunSpec == Init /\ [][TwoRunNext]_vars

(***************************************************************************)
(* mx_exists on its own: any sequence of calls on one cache, against a DNS *)
(* whose answers may change between calls.                                 *)
(***************************************************************************)
CacheInit ==
    /\ IdleRun
    /\ pc = "caller"
    /\ dns \in [DnsNames -> BOOLEAN]
    /\ IdleMx
    /\ IdleExtract

\* lines 37, 46-50: a caller passes any domain
CallerCalls ==
    /\ pc = "caller"
    /\ ~inflight
    /\ ncalls < MaxCalls
    /\ \E d \in DnsNames : MxExistsEnter(d)
    /\ UNCHANGED <<runVars, execVars, extractVars, dns>>

\* line 50 returns an answer
CallerQuerySucceeds ==
    /\ pc = "caller"
    /\ inflight
    /\ dns[arg]
    /\ MxExistsOk
    /\ UNCHANGED <<runVars, execVars, extractVars, dns>>

\* line 50 raises
CallerQueryRaises ==
    /\ pc = "caller"
    /\ inflight
    /\ ~dns[arg]
    /\ \E exc \in Exceptions : MxExistsRaise(exc)
    /\ UNCHANGED <<runVars, execVars, extractVars, dns>>

\* the records behind resolver.resolve (line 50) change
DnsChange ==
    /\ pc = "caller"
    /\ \E d \in DnsNames : dns' = [dns EXCEPT ![d] = ~dns[d]]
    /\ UNCHANGED <<runVars, mxVars, execVars, extractVars>>

CacheNext == CallerCalls \/ CallerQuerySucceeds \/ CallerQueryRaises \/ DnsChange

CacheSpec == CacheInit /\ [][CacheNext]_vars

(***************************************************************************)
(* extract_domain on its own, on every short argument.                     *)
(***************************************************************************)
Alphabet == {"a", "B", "@", " "}

ExtractInputs ==
    {StrCell(s) : s \in UNION {[1..n -> Alphabet] : n \in 0..MaxLen}}
        \cup {NaNCell, IntCell(7)}

ExtractInit ==
    /\ IdleRun
    /\ pc = "caller"
    /\ dns = [d \in DnsNames |-> FALSE]
    /\ IdleMx
    /\ email_arg \in ExtractInputs
    /\ extracted = None
    /\ xcalled = FALSE

\* lines 23-34
ExtractCall ==
    /\ ~xcalled
    /\ extracted' = extract_domain(email_arg)
    /\ xcalled' = TRUE
    /\ UNCHANGED <<email_arg, runVars, mxVars, execVars, dns>>

ExtractNext == ExtractCall

ExtractSpec == ExtractInit /\ [][ExtractNext]_vars

(***************************************************************************)
(* Reference definitions the properties are stated with.                   *)
(***************************************************************************)
RECURSIVE RefDropLeft(_)
\* s without its leading whitespace
RefDropLeft(s) ==
    IF s = <<>> THEN s
    ELSE IF Head(s) \in Whitespace THEN RefDropLeft(Tail(s)) ELSE s

RECURSIVE RefDropRight(_)
\* s without its trailing whitespace
RefDropRight(s) ==
    IF s = <<>> THEN s
    ELSE IF s[Len(s)] \in Whitespace
         THEN RefDropRight(SubSeq(s, 1, Len(s) - 1))
         ELSE s

RefTrim(s) == RefDropRight(RefDropLeft(s))

RECURSIVE RefLower(_)
RefLower(s) ==
    IF s = <<>> THEN <<>> ELSE <<LowerChar(Head(s))>> \o RefLower(Tail(s))

RECURSIVE RefAfterFirstAt(_)
\* the text after the first "@" of s; nothing when s has none
RefAfterFirstAt(s) ==
    IF s = <<>> THEN <<>>
    ELSE IF Head(s) = "@" THEN Tail(s) ELSE RefAfterFirstAt(Tail(s))

\* the Domain of an email value: the text after the first "@" of the trimmed
\* text, lowercased and trimmed; none for a non-string, an empty text or a
\* text without "@"
RefDomain(cell) ==
    IF cell.t # "str" THEN None
    ELSE IF RefTrim(cell.v) = <<>> THEN None
    ELSE IF \A k \in 1..Len(cell.v) : cell.v[k] # "@" THEN None
    ELSE Some(RefTrim(RefLower(RefAfterFirstAt(RefTrim(cell.v)))))

\* s sorts strictly before t
RefBefore(s, t) ==
    \E k \in 1..(Len(t)) :
        /\ \A j \in 1..(k - 1) : j <= Len(s) /\ s[j] = t[j]
        /\ \/ k = Len(s) + 1
           \/ k <= Len(s) /\ Ord(s[k]) < Ord(t[k])

HasEmailColumn == email_column \in Range(table.columns)

\* the Domain of row r of the input table
RowDomain(r) == RefDomain(table.rows[r][ColIndex(table.columns, email_column)])

RowNumbers == 1..Len(table.rows)

\* the unique, non-empty, non-placeholder Domains of the rows
RefWanted ==
    {RowDomain(r).s : r \in {k \in RowNumbers :
                               /\ ~RowDomain(k).isNone
                               /\ RowDomain(k).s # <<>>
                               /\ RowDomain(k).s # <<"n", "a", "n">>}}

IssuesOf(name) ==
    {k \in DOMAIN queries : queries[k].ev = "issue" /\ queries[k].name = name}

Issued == {queries[k].name : k \in {j \in DOMAIN queries : queries[j].ev = "issue"}}

\* the value run wrote for row r in the output column
OutputValue(r) == written.rows[r][ColIndex(written.columns, output_column)]

\* resolve(name, "MX") answers
DnsSucceeds(name) == name \in DOMAIN dns /\ dns[name]

(***************************************************************************)
(* C1: in one execution of run no name is passed to resolver.resolve more  *)
(* than once, whatever the query's outcome and however many rows have that *)
(* domain, in whatever case and with whatever surrounding whitespace.      *)
(***************************************************************************)
C1_AtMostOneQueryPerDomain ==
    /\ \A name \in Issued : Cardinality(IssuesOf(name)) <= 1
    /\ HasEmailColumn =>
         \A r \in RowNumbers :
            ~RowDomain(r).isNone => Cardinality(IssuesOf(RowDomain(r).s)) <= 1

\* two rows spell one domain differently, its query failed, run is done
C1_Witness ==
    /\ pc = "done"
    /\ \E r1, r2 \in RowNumbers :
          /\ table.rows[r1] # table.rows[r2]
          /\ ~RowDomain(r1).isNone
          /\ RowDomain(r1) = RowDomain(r2)
          /\ Cardinality(IssuesOf(RowDomain(r1).s)) = 1
          /\ ~dns[RowDomain(r1).s]

(***************************************************************************)
(* C2 (as claimed): when run completes, a row's output value is 1 if the   *)
(* row has a Domain whose MX query succeeds, 0 if it has a Domain whose MX *)
(* query fails, and 0 if it has no Domain; for every Domain extract_domain *)
(* can return.                                                             *)
(***************************************************************************)
C2_OutputIsLookupResult ==
    pc = "done" =>
        \A r \in RowNumbers :
            OutputValue(r) =
                IF RowDomain(r).isNone THEN IntCell(0)
                ELSE IF DnsSucceeds(RowDomain(r).s) THEN IntCell(1)
                ELSE IntCell(0)

(***************************************************************************)
(* C3: extract_domain returns, for every argument, what the reference      *)
(* gives: none for a non-string, for an empty or blank text and for a text *)
(* without "@"; otherwise the text after the first "@" of the trimmed      *)
(* text, lowercased and trimmed.                                           *)
(***************************************************************************)
C3_ExtractAgreesWithReference ==
    xcalled => extracted = RefDomain(email_arg)

\* an argument with two "@": the second one stays in the result
C3_Witness ==
    /\ xcalled
    /\ Cardinality({k \in 1..Len(email_arg.v) : email_arg.v[k] = "@"}) = 2
    /\ ~extracted.isNone
    /\ Contains(extracted.s, "@")
    /\ Contains(email_arg.v, "B")
    /\ Contains(extracted.s, "b")

(***************************************************************************)
(* C4: when the email column is not a column of the table, run ends with a *)
(* ValueError that names the column and lists the table's columns, having  *)
(* issued no query and written no output.                                  *)
(***************************************************************************)
C4_MissingColumnAborts ==
    (~HasEmailColumn /\ pc \notin {"start", "load"}) =>
        /\ pc = "error"
        /\ error = [type |-> "ValueError", column |-> email_column,
                    available |-> table.columns]
        /\ queries = <<>>
        /\ ncalls = 0
        /\ written = NoFile

C4_Witness ==
    /\ pc = "error"
    /\ ~HasEmailColumn
    /\ Len(table.rows) > 0
    /\ output_column \in Range(table.columns)

(***************************************************************************)
(* C5: when the query of a domain not in the cache finishes, the cache     *)
(* gains exactly that domain, with 1 if the query succeeded and 0 if it    *)
(* raised (any exception class); the stored value is the returned value;   *)
(* nothing is raised and run goes on with the next domain.                 *)
(***************************************************************************)
C5_FailureIsZero ==
    [][(inflight /\ ~inflight') =>
          /\ arg \notin DOMAIN cache
          /\ DOMAIN cache' = (DOMAIN cache) \cup {arg}
          /\ \A k \in DOMAIN cache : cache'[k] = cache[k]
          /\ cache'[arg] = (IF dns[arg] THEN 1 ELSE 0)
          /\ retval' = cache'[arg]
          /\ pc' = "resolve"
          /\ error' = NoError
          /\ i' = i + 1
          /\ unique_domains' = unique_domains]_vars

\* after a failed query was stored as 0, run is querying the next domain
C5_Witness ==
    /\ pc = "resolve"
    /\ inflight
    /\ \E d \in DOMAIN cache : cache[d] = 0 /\ ~dns[d]

(***************************************************************************)
(* C6 (as claimed): for every email and output column name, the written    *)
(* table has the input's rows in order, every input column in place with   *)
(* its values unchanged, and exactly one new, last column with values in   *)
(* {0, 1}.                                                                 *)
(***************************************************************************)
C6_OneColumnAppended ==
    pc = "done" =>
        /\ written.exists
        /\ written.columns = Append(table.columns, output_column)
        /\ Len(written.rows) = Len(table.rows)
        /\ \A r \in RowNumbers :
              /\ Len(written.rows[r]) = Len(table.columns) + 1
              /\ \A c \in 1..Len(table.columns) :
                    written.rows[r][c] = table.rows[r][c]
              /\ written.rows[r][Len(table.columns) + 1] \in {IntCell(0), IntCell(1)}

(***************************************************************************)
(* C7: a second execution on the same table and configuration, from an     *)
(* empty cache and against the same DNS answers, ends as the first did and *)
(* writes the same table, whatever the two progress batch sizes.           *)
(***************************************************************************)
C7_SameOutputTwice ==
    (runNo = 2 /\ pc \in {"done", "error"}) =>
        /\ written = prevWritten
        /\ written.exists <=> pc = "done"

\* both executions wrote a table holding a 1 and a 0, with different batch
\* sizes
C7_Witness ==
    /\ runNo = 2
    /\ pc = "done"
    /\ progress_every # prevProgress
    /\ Len(unique_domains) = 2
    /\ \E d1, d2 \in DOMAIN cache : cache[d1] = 1 /\ cache[d2] = 0

(***************************************************************************)
(* C8: the queries run issues are the unique, non-empty, non-"nan" Domains *)
(* of the rows, each once, in strictly ascending order, each one finished  *)
(* before the next is issued; nothing else is queried.                     *)
(***************************************************************************)
C8_QueriesAreSortedUniqueDomains ==
    /\ \A k \in DOMAIN queries :
          IF k % 2 = 1 THEN queries[k].ev = "issue"
          ELSE queries[k].ev = "finish" /\ queries[k].name = queries[k - 1].name
    /\ inflight <=> (Len(queries) % 2 = 1)
    /\ queries # <<>> => HasEmailColumn /\ Issued \subseteq RefWanted
    /\ \A k, l \in DOMAIN queries :
          (k < l /\ queries[k].ev = "issue" /\ queries[l].ev = "issue")
              => RefBefore(queries[k].name, queries[l].name)
    /\ pc \in {"map", "persist", "done"} =>
          /\ Issued = RefWanted
          /\ Len(queries) = 2 * Cardinality(RefWanted)

\* the rows name two domains in descending order, next to an empty and a
\* "nan" domain or a row without one
C8_Witness ==
    /\ pc = "done"
    /\ Len(queries) = 4
    /\ Len(table.rows) >= 2
    /\ ~RowDomain(1).isNone /\ ~RowDomain(2).isNone
    /\ RefBefore(RowDomain(2).s, RowDomain(1).s)
    /\ queries[1].name = RowDomain(2).s

(***************************************************************************)
(* C9: over any sequence of mx_exists calls a key of the cache is never    *)
(* removed and its value never changes, every value is 0 or 1, and a call  *)
(* for a cached domain returns the stored value, issues no query and       *)
(* leaves the cache as it is, even if the DNS would now answer otherwise.  *)
(***************************************************************************)
C9_CacheMonotonic ==
    [][/\ \A k \in DOMAIN cache : k \in DOMAIN cache' /\ cache'[k] = cache[k]
       /\ \A k \in DOMAIN cache' : cache'[k] \in {0, 1}
       /\ (ncalls' = ncalls + 1 /\ arg' \in DOMAIN cache) =>
             /\ retval' = cache[arg']
             /\ queries' = queries
             /\ cache' = cache
             /\ ~inflight']_vars

\* two calls and one query: the second call was answered from the cache, 0,
\* although the DNS now has the record
C9_Witness ==
    /\ ncalls = 2
    /\ Len(queries) = 2
    /\ ~inflight
    /\ arg \in DOMAIN cache
    /\ cache[arg] = 0
    /\ retval = 0
    /\ dns[arg]

(***************************************************************************)
(* C10: with the email column present, run moves through load, extract,    *)
(* deduplicate, resolve, map, persist, done, one step forward at a time    *)
(* and never back; the loop calls mx_exists once per unique domain; and    *)
(* every run reaches done with the output written, whatever rows fail to   *)
(* parse and whatever queries fail.                                        *)
(***************************************************************************)
PhaseRank(p) ==
    CASE p = "load" -> 1
      [] p = "extract" -> 2
      [] p = "dedup" -> 3
      [] p = "resolve" -> 4
      [] p = "map" -> 5
      [] p = "persist" -> 6
      [] p = "done" -> 7
      [] p = "start" -> 0
      [] OTHER -> 0 - 1

C10_LinearAndTerminates ==
    /\ [][HasEmailColumn =>
            /\ pc' # pc => PhaseRank(pc') = PhaseRank(pc) + 1
            /\ ncalls' # ncalls =>
                  /\ pc = "resolve"
                  /\ ncalls' = ncalls + 1
                  /\ ncalls' <= Cardinality(RefWanted)]_vars
    /\ [](pc \in {"map", "persist", "done"} => ncalls = Cardinality(RefWanted))
    /\ (HasEmailColumn /\ pc = "load") ~> (pc = "done" /\ written.exists)

\* done after a failed query and a row without a domain
C10_Witness ==
    /\ pc = "done"
    /\ written.exists
    /\ \E d \in DOMAIN cache : cache[d] = 0
    /\ \E r \in RowNumbers : RowDomain(r).isNone
    /\ ncalls = 1

====
